---------------------------- MODULE Spec2Model ----------------------------
(***************************************************************************)
(* Model of generate_icons.py: the icon emitter of the Android Health      *)
(* Monitor.  One process run resolves PIL_AVAILABLE at import time, then   *)
(* main() walks ICON_SIZES in table order, creates the mipmap directory of *)
(* each density and writes its two launcher icons, either rendered with    *)
(* PIL or as the fixed fallback byte sequence.  Any OSError raised by      *)
(* os.makedirs, open/write or Image.save is uncaught and ends the process. *)
(*                                                                         *)
(* The file system outlives a process, so the model lets the script be run *)
(* again (MaxRuns times) on the tree an earlier run, complete or crashed,  *)
(* left behind.                                                            *)
(***************************************************************************)
EXTENDS Integers, Sequences, FiniteSets, TLC

VARIABLES
    PIL_AVAILABLE,  \* the capability flag, set by the import at lines 7-11
    pc,             \* "none" | "makedirs" | "write" | "done" | "crashed"
    di,             \* position of the outer loop in ICON_SIZES (1-based)
    ni,             \* position of the inner loop in the icon name list
    dirs,           \* the directories that exist
    fs,             \* the files that exist: path -> content
    err,            \* the exception that ended the run, "" when none
    log,            \* the file system calls of this run that succeeded, in order
    fsStart,        \* fs when this run started
    prev,           \* how the previous run ended, and the tree it left
    runs,           \* number of process runs started
    r_size,         \* create_icon_with_pil: the size argument
    r_px,           \* a pixel <<x, y>> of the image being drawn
    r_edge,         \* whether the rasteriser fills that pixel when it lies on the rim
    r_colour,       \* the colour of the pixel, "" before Image.new
    r_saved         \* img.save has been reached

mainvars == <<PIL_AVAILABLE, pc, di, ni, dirs, fs, err, log, fsStart, prev, runs>>
rendervars == <<r_size, r_px, r_edge, r_colour, r_saved>>
vars == <<PIL_AVAILABLE, pc, di, ni, dirs, fs, err, log, fsStart, prev, runs,
          r_size, r_px, r_edge, r_colour, r_saved>>

\* How many times the script is run on the same tree.
MaxRuns == 3

-----------------------------------------------------------------------------
(* Module-level constants of the script *)

\* the table walked in sorted key order instead of insertion order
ICON_SIZES_Sorted ==
    << [density |-> "hdpi",    size |-> 72],
       [density |-> "mdpi",    size |-> 48],
       [density |-> "xhdpi",   size |-> 96],
       [density |-> "xxhdpi",  size |-> 144],
       [density |-> "xxxhdpi", size |-> 192] >>

ICON_SIZES ==
    << [density |-> "mdpi",    size |-> 48],
       [density |-> "hdpi",    size |-> 72],
       [density |-> "xhdpi",   size |-> 96],
       [density |-> "xxhdpi",  size |-> 144],
       [density |-> "xxxhdpi", size |-> 192] >>

BASE_PATH == "app/src/main/res"

\* the second name a copy of the first
IconNames_SameTwice == << "ic_launcher.png", "ic_launcher.png" >>

\* the two names in the other order
IconNames_Swapped == << "ic_launcher_round.png", "ic_launcher.png" >>

IconNames == << "ic_launcher.png", "ic_launcher_round.png" >>

\* os.path.join(a, b) for a relative b and an a that does not end in "/"
PathJoin(a, b) == a \o "/" \o b

\* f'mipmap-{density}' joined to BASE_PATH
MipmapDir(density) == PathJoin(BASE_PATH, "mipmap-" \o density)

\* os.makedirs called without exist_ok (its default)
ExistOk_Default == FALSE

\* the exist_ok argument of os.makedirs
ExistOk == TRUE


-----------------------------------------------------------------------------
(* create_minimal_png *)

\* the bytes literal png_data, one number per byte
png_data ==
    << 137, 80, 78, 71, 13, 10, 26, 10,                         \* signature
       0, 0, 0, 13, 73, 72, 68, 82, 0, 0, 0, 1, 0, 0, 0, 1,
       8, 2, 0, 0, 0, 144, 119, 83, 222,                        \* IHDR chunk
       0, 0, 0, 12, 73, 68, 65, 84, 120, 156, 99, 248, 15, 0, 0, 1, 1, 0, 5,
       24, 13, 10, 29,                                          \* IDAT chunk
       0, 0, 0, 0, 73, 69, 78, 68, 174, 66, 96, 130 >>          \* IEND chunk

\* a fallback that pads the file according to the requested size
create_minimal_png_scaled(size, output_path) ==
    [enc |-> "raw", bytes |-> png_data \o [i \in 1..size |-> 0]]

\* what open(output_path, 'wb'); f.write(png_data) leaves in the file:
\* the size argument is not used
create_minimal_png(size, output_path) ==
    [enc |-> "raw", bytes |-> png_data]

-----------------------------------------------------------------------------
(* create_icon_with_pil, the image as a whole *)

\* an image of one hard-coded size, whatever the argument
create_icon_with_pil_fixed(size, output_path) ==
    [enc |-> "PNG", mode |-> "RGB", width |-> 48, height |-> 48]

\* Image.new('RGB', (size, size), ...) ... img.save(output_path, 'PNG'):
\* the file holds an RGB image of that width and height
create_icon_with_pil(size, output_path) ==
    [enc |-> "PNG", mode |-> "RGB", width |-> size, height |-> size]

-----------------------------------------------------------------------------
(* The file system *)

NoFiles == [p \in {} |-> ""]

\* a file whose write was interrupted (opened for writing, not completed)
Truncated == [enc |-> "truncated"]

WriteFile(fsys, path, content) ==
    [p \in (DOMAIN fsys) \cup {path} |-> IF p = path THEN content ELSE fsys[p]]

\* os.makedirs(d, exist_ok): FileExistsError for an existing directory
\* unless exist_ok
MakedirsRaises(dirset, d) == d \in dirset /\ ~ExistOk

\* open(path, 'wb') and Image.save need the directory of the path
OpenRaises(dirset, d) == d \notin dirset

-----------------------------------------------------------------------------
(* main *)

Density == ICON_SIZES[di].density
Size    == ICON_SIZES[di].size
mipmap_dir  == MipmapDir(Density)
output_path == PathJoin(mipmap_dir, IconNames[ni])

\* the if PIL_AVAILABLE / else of the inner loop body
IconContent(pil, size, path) ==
    IF pil THEN create_icon_with_pil(size, path)
           ELSE create_minimal_png(size, path)

NoPrev == [ok |-> FALSE, pil |-> FALSE, fs |-> NoFiles]

InitMain ==
    /\ PIL_AVAILABLE = FALSE
    /\ pc = "none"
    /\ di = 1
    /\ ni = 1
    /\ dirs = {}
    /\ fs = NoFiles
    /\ err = ""
    /\ log = << >>
    /\ fsStart = NoFiles
    /\ prev = NoPrev
    /\ runs = 0

RenderIdle ==
    /\ r_size = 0
    /\ r_px = << 0, 0 >>
    /\ r_edge = FALSE
    /\ r_colour = ""
    /\ r_saved = FALSE

Init == InitMain /\ RenderIdle

\* The script is started: the import at lines 7-11 sets PIL_AVAILABLE, then
\* main() enters its outer loop.
Start ==
    /\ pc \in {"none", "done", "crashed"}
    /\ runs < MaxRuns
    /\ \E avail \in BOOLEAN : PIL_AVAILABLE' = avail
    /\ prev' = IF pc = "done" THEN [ok |-> TRUE, pil |-> PIL_AVAILABLE, fs |-> fs]
                              ELSE NoPrev
    /\ pc' = "makedirs"
    /\ di' = 1
    /\ ni' = 1
    /\ err' = ""
    /\ log' = << >>
    /\ fsStart' = fs
    /\ runs' = runs + 1
    /\ UNCHANGED <<dirs, fs>>
    /\ UNCHANGED rendervars

\* os.makedirs(mipmap_dir, exist_ok=True); oserror is a failure of the
\* file system itself (permissions, disk full)
MakeDirs ==
    /\ pc = "makedirs"
    /\ \E oserror \in BOOLEAN :
         IF MakedirsRaises(dirs, mipmap_dir)
         THEN /\ pc' = "crashed"
              /\ err' = "FileExistsError"
              /\ UNCHANGED <<dirs, log, ni>>
         ELSE IF oserror
         THEN /\ pc' = "crashed"
              /\ err' = "OSError"
              /\ UNCHANGED <<dirs, log, ni>>
         ELSE /\ dirs' = dirs \cup {mipmap_dir}
              /\ log' = Append(log, << "makedirs", mipmap_dir >>)
              /\ pc' = "write"
              /\ ni' = 1
              /\ err' = ""
    /\ UNCHANGED <<PIL_AVAILABLE, di, fs, fsStart, prev, runs>>
    /\ UNCHANGED rendervars

\* a write that raised part-way undone by restoring the tree of the start
AfterFailedWrite_Rollback(fsys, path, truncate) == fsStart

\* the tree after open(output_path, 'wb') / f.write or img.save raised: the
\* file as it was when open itself failed, cut short when open succeeded; no
\* handler touches any other file
AfterFailedWrite(fsys, path, truncate) ==
    IF truncate THEN WriteFile(fsys, path, Truncated) ELSE fsys

\* one pass of the inner loop body: the file is written by the strategy the
\* flag selects; a failed write leaves the file as it was or truncated
WriteIcon ==
    /\ pc = "write"
    /\ \E oserror \in BOOLEAN, truncate \in BOOLEAN :
         IF OpenRaises(dirs, mipmap_dir)
         THEN /\ pc' = "crashed"
              /\ err' = "FileNotFoundError"
              /\ UNCHANGED <<fs, log, di, ni>>
         ELSE IF oserror
         THEN /\ pc' = "crashed"
              /\ err' = "OSError"
              /\ fs' = AfterFailedWrite(fs, output_path, truncate)
              /\ UNCHANGED <<log, di, ni>>
         ELSE /\ ~truncate
              /\ fs' = WriteFile(fs, output_path,
                                 IconContent(PIL_AVAILABLE, Size, output_path))
              /\ log' = Append(log, << "write", output_path >>)
              /\ err' = ""
              /\ IF ni < Len(IconNames)
                 THEN /\ ni' = ni + 1
                      /\ pc' = "write"
                      /\ di' = di
                 ELSE IF di < Len(ICON_SIZES)
                 THEN /\ di' = di + 1
                      /\ ni' = 1
                      /\ pc' = "makedirs"
                 ELSE /\ pc' = "done"
                      /\ UNCHANGED <<di, ni>>
    /\ UNCHANGED <<PIL_AVAILABLE, dirs, fsStart, prev, runs>>
    /\ UNCHANGED rendervars

Next ==
    \/ Start
    \/ MakeDirs
    \/ WriteIcon

Spec == Init /\ [][Next]_vars

-----------------------------------------------------------------------------
(* create_icon_with_pil, pixel by pixel.  The image is a function of the   *)
(* size argument alone; each drawing call is modelled by its effect on one *)
(* pixel <<x, y>>, and the specification SpecRender draws the size from    *)
(* ICON_SIZES and the pixel from the whole image.                          *)

GREEN == "#3DDC84"
WHITE == "white"
RED   == "#FF5252"

\* ImageDraw.rectangle([x0, y0, x1, y1], fill): both corners are inside the
\* rectangle; what falls outside the image is clipped
DrawRectangle(under, box, fill, x, y) ==
    IF box[1] <= x /\ x <= box[3] /\ box[2] <= y /\ y <= box[4]
    THEN fill ELSE under

\* Twice the distance of the pixel from the centre of the box, squared.
Dist2(box, x, y) ==
    (2 * x - (box[1] + box[3])) * (2 * x - (box[1] + box[3]))
  + (2 * y - (box[2] + box[4])) * (2 * y - (box[2] + box[4]))

\* the pixels within one pixel of the outline of the circle inscribed in a
\* square box: which of them are filled is the rasteriser's choice
OnRim(box, x, y) ==
    /\ Dist2(box, x, y) > (box[3] - box[1] - 2) * (box[3] - box[1] - 2)
    /\ Dist2(box, x, y) <= (box[3] - box[1] + 2) * (box[3] - box[1] + 2)

\* ImageDraw.ellipse(box, fill) for the square boxes the script passes: the
\* disc inscribed in the box
EllipseCovers(box, x, y, edge) ==
    \/ Dist2(box, x, y) <= (box[3] - box[1] - 2) * (box[3] - box[1] - 2)
    \/ OnRim(box, x, y) /\ edge

DrawEllipse(under, box, fill, x, y, edge) ==
    IF EllipseCovers(box, x, y, edge) THEN fill ELSE under

\* the bounding box of the draw.ellipse call
HeartBox(size) ==
    LET center_x == size \div 2
        center_y == size \div 2
        heart_size == size \div 3
    IN  << center_x - heart_size, center_y - heart_size,
           center_x + heart_size, center_y + heart_size >>

\* the box of the first draw.rectangle call
VerticalBox(size) ==
    LET center_x == size \div 2
        center_y == size \div 2
        cross_width == size \div 8
        cross_length == size \div 2
    IN  << center_x - cross_width, center_y - cross_length,
           center_x + cross_width, center_y + cross_length >>

\* the box of the second draw.rectangle call
HorizontalBox(size) ==
    LET center_x == size \div 2
        center_y == size \div 2
        cross_width == size \div 8
        cross_length == size \div 2
    IN  << center_x - cross_length, center_y - cross_width,
           center_x + cross_length, center_y + cross_width >>

\* the circle drawn after the cross instead of before it
PilPixel_CircleLast(size, x, y, edge) ==
    LET img0 == GREEN
        img1 == DrawRectangle(img0, VerticalBox(size), RED, x, y)
        img2 == DrawRectangle(img1, HorizontalBox(size), RED, x, y)
        img3 == DrawEllipse(img2, HeartBox(size), WHITE, x, y, edge)
    IN  img3

\* the colour of pixel <<x, y>> in the image create_icon_with_pil saves:
\* Image.new, then draw.ellipse, then the two draw.rectangle calls
PilPixel(size, x, y, edge) ==
    LET img0 == GREEN
        img1 == DrawEllipse(img0, HeartBox(size), WHITE, x, y, edge)
        img2 == DrawRectangle(img1, VerticalBox(size), RED, x, y)
        img3 == DrawRectangle(img2, HorizontalBox(size), RED, x, y)
    IN  img3

RenderInit ==
    /\ InitMain
    /\ \E k \in 1..Len(ICON_SIZES) : r_size = ICON_SIZES[k].size
    /\ r_px \in (0..(r_size - 1)) \X (0..(r_size - 1))
    /\ r_edge \in IF OnRim(HeartBox(r_size), r_px[1], r_px[2])
                  THEN BOOLEAN ELSE {FALSE}
    /\ r_colour = ""
    /\ r_saved = FALSE

\* create_icon_with_pil(size, output_path), observed at the pixel r_px
CreateIconWithPil ==
    /\ ~r_saved
    /\ r_colour' = PilPixel(r_size, r_px[1], r_px[2], r_edge)
    /\ r_saved' = TRUE
    /\ UNCHANGED <<r_size, r_px, r_edge>>
    /\ UNCHANGED mainvars

RenderNext == CreateIconWithPil

SpecRender == RenderInit /\ [][RenderNext]_vars

-----------------------------------------------------------------------------
(* What the specification documents, written out independently of the      *)
(* tables above                                                            *)

\* the ten documented files in the documented write order, each with the
\* side length the density table gives for its directory
DocFiles ==
    << [path |-> "app/src/main/res/mipmap-mdpi/ic_launcher.png",          side |-> 48],
       [path |-> "app/src/main/res/mipmap-mdpi/ic_launcher_round.png",    side |-> 48],
       [path |-> "app/src/main/res/mipmap-hdpi/ic_launcher.png",          side |-> 72],
       [path |-> "app/src/main/res/mipmap-hdpi/ic_launcher_round.png",    side |-> 72],
       [path |-> "app/src/main/res/mipmap-xhdpi/ic_launcher.png",         side |-> 96],
       [path |-> "app/src/main/res/mipmap-xhdpi/ic_launcher_round.png",   side |-> 96],
       [path |-> "app/src/main/res/mipmap-xxhdpi/ic_launcher.png",        side |-> 144],
       [path |-> "app/src/main/res/mipmap-xxhdpi/ic_launcher_round.png",  side |-> 144],
       [path |-> "app/src/main/res/mipmap-xxxhdpi/ic_launcher.png",       side |-> 192],
       [path |-> "app/src/main/res/mipmap-xxxhdpi/ic_launcher_round.png", side |-> 192] >>

DocDirs ==
    << "app/src/main/res/mipmap-mdpi", "app/src/main/res/mipmap-hdpi",
       "app/src/main/res/mipmap-xhdpi", "app/src/main/res/mipmap-xxhdpi",
       "app/src/main/res/mipmap-xxxhdpi" >>

DocPaths == { DocFiles[i].path : i \in 1..Len(DocFiles) }

\* the documented order of the file system calls of a run: per density the
\* directory, then ic_launcher.png, then ic_launcher_round.png
DocOrder ==
    [ k \in 1..15 |->
        IF k % 3 = 1 THEN << "makedirs", DocDirs[(k + 2) \div 3] >>
        ELSE IF k % 3 = 2 THEN << "write", DocFiles[2 * ((k + 1) \div 3) - 1].path >>
        ELSE << "write", DocFiles[2 * (k \div 3)].path >> ]

PngSignature == << 137, 80, 78, 71, 13, 10, 26, 10 >>

\* the paths this run has written, in order, and as a set
Writes == SelectSeq(log, LAMBDA e : e[1] = "write")
Written == { Writes[i][2] : i \in 1..Len(Writes) }

IsPrefix(s, t) == Len(s) <= Len(t) /\ \A i \in 1..Len(s) : s[i] = t[i]

-----------------------------------------------------------------------------
\* C1: a run of main() that meets no file system error, in either
\* capability mode, writes exactly the 10 documented files, one per
\* (density, name) pair, each path exactly once, and no file anywhere else.
C1_ExactlyTenFiles ==
    pc = "done" =>
        /\ Len(Writes) = 10
        /\ \A i, j \in 1..Len(Writes) : Writes[i] = Writes[j] => i = j
        /\ Written = DocPaths
        /\ DOMAIN fs = DocPaths

C1_Witness ==
    /\ pc = "done"
    /\ runs = 2
    /\ prev.ok
    /\ prev.pil # PIL_AVAILABLE

\* C2: without the drawing library every file a run writes holds the same
\* fixed fallback byte sequence, whatever the density's size; the sequence
\* is 68 bytes long and starts with the PNG signature.
C2_FallbackBytes ==
    ~PIL_AVAILABLE =>
        \A p \in Written, q \in Written :
            /\ fs[p].enc = "raw"
            /\ fs[p].bytes = png_data
            /\ fs[p] = fs[q]
            /\ Len(fs[p].bytes) = 68
            /\ SubSeq(fs[p].bytes, 1, 8) = PngSignature

C2_Witness ==
    /\ pc = "done"
    /\ ~PIL_AVAILABLE
    /\ Cardinality(Written) = 10
    /\ \A p \in Written : fs[p].enc = "raw"

\* C4: with the drawing library every file a run writes holds a square image
\* whose width and height are the side length the density table gives for
\* its directory, and no file of the run holds the fallback bytes.
C4_RenderedSizes ==
    PIL_AVAILABLE =>
        \A i \in 1..Len(DocFiles) :
            DocFiles[i].path \in Written =>
                /\ fs[DocFiles[i].path].enc = "PNG"
                /\ fs[DocFiles[i].path].width = DocFiles[i].side
                /\ fs[DocFiles[i].path].height = DocFiles[i].side

C4_Witness ==
    /\ pc = "done"
    /\ PIL_AVAILABLE
    /\ Written = DocPaths
    /\ fs["app/src/main/res/mipmap-xxxhdpi/ic_launcher_round.png"].width = 192

\* C5: two successive error-free runs in the same capability mode leave the
\* same files with the same contents as the first of them did, and
\* os.makedirs never fails because the directory already exists.
C5_Idempotent ==
    /\ err # "FileExistsError"
    /\ (pc = "done" /\ prev.ok /\ prev.pil = PIL_AVAILABLE) =>
            /\ DOMAIN fs = DOMAIN prev.fs
            /\ fs = prev.fs

C5_Witness ==
    /\ pc = "done"
    /\ prev.ok
    /\ prev.pil = PIL_AVAILABLE
    /\ fsStart = fs

\* the files this run wrote hold what the strategy of this run writes
ThisRunWrote(i) ==
    /\ DocFiles[i].path \in DOMAIN fs
    /\ IF PIL_AVAILABLE
       THEN /\ fs[DocFiles[i].path].enc = "PNG"
            /\ fs[DocFiles[i].path].width = DocFiles[i].side
       ELSE fs[DocFiles[i].path].enc = "raw"

\* position in DocFiles of the first file after the failed step: a failed
\* makedirs (the log holds whole densities) comes before file Len(Writes)+1,
\* a failed write is the write of that file
FirstLater == IF Len(log) % 3 = 0 THEN Len(Writes) + 1 ELSE Len(Writes) + 2

\* C6 as stated: after a fatal file system failure every file written before
\* it is present with the content this run wrote, and every file later in
\* the write order is absent.
C6_LaterAbsent ==
    pc = "crashed" =>
        /\ \A i \in 1..Len(Writes) : ThisRunWrote(i)
        /\ \A i \in FirstLater..Len(DocFiles) : DocFiles[i].path \notin DOMAIN fs

\* C6 amended: after a fatal file system failure the run has written exactly
\* the files before the failed step, in order, each present with the content
\* this run wrote, and every file later in the write order is as it was when
\* the run started (absent if it was absent then).
C6_LaterUntouched ==
    pc = "crashed" =>
        /\ err # ""
        /\ IsPrefix(log, DocOrder)
        /\ \A i \in 1..Len(Writes) : ThisRunWrote(i)
        /\ \A i \in FirstLater..Len(DocFiles) :
              /\ DocFiles[i].path \in DOMAIN fs <=> DocFiles[i].path \in DOMAIN fsStart
              /\ DocFiles[i].path \in DOMAIN fs =>
                    fs[DocFiles[i].path] = fsStart[DocFiles[i].path]

C6_Witness ==
    /\ pc = "crashed"
    /\ Len(Writes) = 3
    /\ "app/src/main/res/mipmap-xxxhdpi/ic_launcher.png" \in DOMAIN fs
    /\ PIL_AVAILABLE
    /\ fs["app/src/main/res/mipmap-xxxhdpi/ic_launcher.png"].enc = "raw"

\* C10: the file system calls of a run happen one at a time in the fixed
\* nested order: densities in table order, the directory of a density before
\* its files, ic_launcher.png before ic_launcher_round.png, both files of a
\* density before anything of the next.
C10_FixedOrder == IsPrefix(log, DocOrder)

C10_Witness ==
    /\ pc = "done"
    /\ Len(log) = 15
    /\ log[15] = << "write", "app/src/main/res/mipmap-xxxhdpi/ic_launcher_round.png" >>

-----------------------------------------------------------------------------
(* The PNG container, as the format defines it *)

\* the 4-byte big-endian number at position p; -1 when it is cut short or
\* exceeds the 31 bits the format allows
BE32(b, p) ==
    IF p + 3 > Len(b) \/ b[p] >= 128 THEN -1
    ELSE b[p] * 16777216 + b[p + 1] * 65536 + b[p + 2] * 256 + b[p + 3]

\* a chunk starts at p: length, type, that many data bytes and a CRC all lie
\* within the sequence
ChunkAt(b, p) ==
    /\ BE32(b, p) >= 0
    /\ p + 12 + BE32(b, p) - 1 <= Len(b)

ChunkType(b, p) == SubSeq(b, p + 4, p + 7)
ChunkEnd(b, p) == p + 12 + BE32(b, p)

IHDR == << 73, 72, 68, 82 >>
IDAT == << 73, 68, 65, 84 >>
IEND == << 73, 69, 78, 68 >>

WellFormedMinimalPng(b) ==
    /\ Len(b) >= 8
    /\ SubSeq(b, 1, 8) = PngSignature
    /\ ChunkAt(b, 9)
    /\ ChunkType(b, 9) = IHDR
    /\ BE32(b, 9) >= 8
    /\ BE32(b, 17) = 1                           \* width
    /\ BE32(b, 21) = 1                           \* height
    /\ ChunkAt(b, ChunkEnd(b, 9))
    /\ ChunkType(b, ChunkEnd(b, 9)) = IDAT
    /\ ChunkAt(b, ChunkEnd(b, ChunkEnd(b, 9)))
    /\ ChunkType(b, ChunkEnd(b, ChunkEnd(b, 9))) = IEND
    /\ ChunkEnd(b, ChunkEnd(b, ChunkEnd(b, 9))) = Len(b) + 1

\* C3: the fallback byte sequence is a well-formed minimal 1x1 PNG: the
\* signature, then exactly the chunks IHDR, IDAT, IEND, each a 4-byte length,
\* a 4-byte type, that many data bytes and a 4-byte CRC, covering the
\* sequence to its last byte, the IHDR giving width 1 and height 1.
C3_WellFormedFallback ==
    \A p \in DOMAIN fs :
        fs[p].enc = "raw" => WellFormedMinimalPng(fs[p].bytes)

-----------------------------------------------------------------------------
(* The rendered icon *)

\* C7: in the icon of side 192 the pixel (96, 20) is outside the red cross:
\* it ends white or green, not red.
C7_TopPixelNotRed ==
    (r_saved /\ r_size = 192 /\ r_px = << 96, 20 >>) =>
        r_colour \in {WHITE, GREEN}

Abs(n) == IF n < 0 THEN -n ELSE n

\* a centred bar s/8 wide and s/2 long, vertical or horizontal (distances
\* from the centre doubled, so that half the width is s/8 over 2)
InDocumentedBar(s, x, y) ==
    \/ Abs(2 * x - 2 * (s \div 2)) <= s \div 8 /\ Abs(2 * y - 2 * (s \div 2)) <= s \div 2
    \/ Abs(2 * y - 2 * (s \div 2)) <= s \div 8 /\ Abs(2 * x - 2 * (s \div 2)) <= s \div 2

\* C8: the red pixels of the icon of side s are exactly those of two centred
\* bars, one vertical and one horizontal, each s/8 wide and s/2 long.
C8_BarExtent ==
    r_saved =>
        (r_colour = RED <=> InDocumentedBar(r_size, r_px[1], r_px[2]))

\* the white circle: centred, radius one third of the side
InCircle(s, x, y, edge) ==
    EllipseCovers(<< s \div 2 - s \div 3, s \div 2 - s \div 3,
                     s \div 2 + s \div 3, s \div 2 + s \div 3 >>, x, y, edge)

\* the red bars as they are drawn: every pixel within s/8 of the vertical
\* or of the horizontal centre line
InDrawnBar(s, x, y) ==
    \/ Abs(x - s \div 2) <= s \div 8
    \/ Abs(y - s \div 2) <= s \div 8

=============================================================================
